---- MODULE Spec2Model ----
(***************************************************************************)
(* A model of the WakeSleepSTT controller (src/wakeSleepStt.ts, stored in  *)
(* src/jest.config.js from line 11 on): the mode state machine, the result *)
(* handler with its text normalisation and phrase matching, and the two    *)
(* restart paths (scheduleRestart and handleNetworkError).                 *)
(*                                                                         *)
(* The controller runs on a single-threaded event loop. Every action below *)
(* is one callback turn: a public method call, an adapter event, a timer   *)
(* firing, a network event, or the continuation of an async method after   *)
(* one of its awaits.                                                      *)
(*                                                                         *)
(* Spec is the controller with the scenario's phrase lists. PureSpec       *)
(* applies the pure functions (normalizeTranscript, the phrase matcher,    *)
(* the backoff delay) once to inputs drawn from bounded sets.              *)
(***************************************************************************)
EXTENDS Integers, Sequences, FiniteSets, TLC

VARIABLES
    \* configuration, fixed by the constructor
    autoRestart, maxRestartAttempts, wakeConfidenceThreshold,
    \* fields of the instance
    currentState, isTranscribing, restartAttempts, restartTimeout, recognition,
    \* the environment
    online,         \* navigator.onLine
    apiSupported,   \* window.SpeechRecognition exists
    timerLive,      \* the timer restartTimeout names has not fired and was not cleared
    liveTimers,     \* the restart timers that were set and have not fired or been cleared
    recStatus,      \* the adapter the instance holds: idle, starting, running, ending
    staleStopped,   \* adapters dropped after stop() that still owe their end event
    staleAborted,   \* adapters dropped after abort() that still owe their end event
    hneWaiting,     \* handleNetworkError calls suspended in their 1000 ms wait
    calls,          \* startListening calls suspended at an await
    onlineOnce,     \* one-shot 'online' listeners registered by handleNetworkError
    \* observation
    lastCode,       \* the error code of the latest StateEvent
    sink,           \* the events delivered to onEvent during the latest turn
    last,           \* the latest turn: which handler ran, on what input
    sinceStop,      \* stopListening has returned and the application has not
                    \* called startListening since
    \* the inputs and the result of one application of a pure function
    phraseList,     \* the phrase list a matcher is compiled from
    inputText,      \* the text given to normalizeTranscript or to the matcher
    attempt,        \* the value of restartAttempts a delay is computed for
    jitter,         \* Math.floor(Math.random() * 1000)
    out             \* what the function returned

vars == << autoRestart, maxRestartAttempts, wakeConfidenceThreshold,
           currentState, isTranscribing, restartAttempts, restartTimeout, recognition,
           online, apiSupported, timerLive, liveTimers, recStatus, staleStopped,
           staleAborted, hneWaiting, calls, onlineOnce, lastCode, sink, last,
           sinceStop, phraseList, inputText, attempt, jitter, out >>

\* the state of the instance and of its environment
instance == << autoRestart, maxRestartAttempts, wakeConfidenceThreshold,
               currentState, isTranscribing, restartAttempts, restartTimeout,
               recognition, online, apiSupported, timerLive, liveTimers, recStatus,
               staleStopped, staleAborted, hneWaiting, calls, onlineOnce,
               lastCode, sink, last, sinceStop >>

-----------------------------------------------------------------------------
(* Bounds of the model *)

\* what may be in flight at once: suspended startListening calls, waiting
\* handleNetworkError calls, and adapters that are started or owe their end event
MaxInFlight == 2

\* the longest text of the exhaustive part of the matcher's inputs
MaxLen == 3

\* the largest attempt number a delay is computed for
MaxAttempt == 8

-----------------------------------------------------------------------------
(* Text: a string is a sequence of one-character strings *)

LowerLetters == {"a","d","e","g","h","i","k","l","n","o","p","r","s","t","w"}
UpperLetters == {"H","S"}
Whitespace == {" "}
Punctuation == {".", ",", "!", "?", ";", ":"}

\* String.prototype.toLowerCase on one character
LowerChar(c) ==
    CASE c = "H" -> "h"
      [] c = "S" -> "s"
      [] OTHER -> c

toLowerCase(t) == [i \in 1..Len(t) |-> LowerChar(t[i])]

RECURSIVE TrimStart(_)
TrimStart(t) ==
    IF t # <<>> /\ Head(t) \in Whitespace THEN TrimStart(Tail(t)) ELSE t

RECURSIVE TrimEnd(_)
TrimEnd(t) ==
    IF t # <<>> /\ t[Len(t)] \in Whitespace
    THEN TrimEnd(SubSeq(t, 1, Len(t) - 1))
    ELSE t

\* String.prototype.trim
trim(t) == TrimEnd(TrimStart(t))

IsPunct(c) == c \in Punctuation

\* replace(/[.,!?;:]/g, '')
StripPunctuation(t) == SelectSeq(t, LAMBDA c : ~IsPunct(c))

\* text.toLowerCase().trim().replace(/[.,!?;:]/g, '')
normalizeTranscript(t) == StripPunctuation(trim(toLowerCase(t)))

\* \w of the regular expression
IsWordChar(c) == c \in LowerLetters \cup UpperLetters

\* whether position p (0..Len(t)), between t[p] and t[p+1], is a \b boundary
WordBoundary(t, p) ==
    LET before == p >= 1 /\ IsWordChar(t[p])
        after  == p < Len(t) /\ IsWordChar(t[p + 1])
    IN before # after

\* the alternatives of the group (w1|w2|...): words.join('|') of an empty
\* list is the empty string, whose only alternative is the empty phrase
Alternatives(words) ==
    IF words = <<>> THEN {<<>>} ELSE {words[i] : i \in 1..Len(words)}

\* one character of a phrase as the pattern reads it: the phrases are joined
\* into the pattern unescaped, so a full stop is the wildcard; any other
\* character of the model's alphabet stands for itself, whatever its case
AtomMatches(a, c) == IF a = "." THEN TRUE ELSE LowerChar(c) = LowerChar(a)

\* new RegExp(`\\b(${words.join('|')})\\b`, 'i').test(t)
RegexTest(words, t) ==
    \E w \in Alternatives(words) :
        \E p \in 0..Len(t) :
            /\ p + Len(w) <= Len(t)
            /\ WordBoundary(t, p)
            /\ WordBoundary(t, p + Len(w))
            /\ \A j \in 1..Len(w) : AtomMatches(w[j], t[p + j])

\* the phrase lists of the scenario {wakeWords: ['start'], sleepWords: ['stop']}
WakeWords == << <<"s","t","a","r","t">> >>
SleepWords == << <<"s","t","o","p">> >>

detectWakeWord(transcript) == RegexTest(WakeWords, normalizeTranscript(transcript))
detectSleepWord(transcript) == RegexTest(SleepWords, normalizeTranscript(transcript))

\* the recognised texts the adapter delivers
TxtWake  == <<"p","l","e","a","s","e"," ","s","t","a","r","t"," ","n","o","w">>
TxtSleep == <<"o","k"," ","s","t","o","p">>
TxtBoth  == <<"S","t","a","r","t",","," ","s","t","o","p","!">>
TxtNone  == <<"H","i",".">>
ResultTexts == {TxtWake, TxtSleep, TxtBoth, TxtNone}

\* detectWakeWord and detectSleepWord tabulated over these texts, so that the
\* regular expressions are evaluated once per text
WakeTable == [t \in ResultTexts |-> detectWakeWord(t)]
SleepTable == [t \in ResultTexts |-> detectSleepWord(t)]

\* a hypothesis' confidence, in tenths; present is FALSE when it carries none
Absent == [present |-> FALSE, value |-> 0]
Conf(v) == [present |-> TRUE, value |-> v]
Confidences == {Absent, Conf(0), Conf(3), Conf(9)}

Hyp(t, f, c) == [text |-> t, isFinal |-> f, confidence |-> c]

\* the hypotheses the adapter delivers
Hypotheses ==
    { Hyp(TxtWake, TRUE, Conf(9)), Hyp(TxtWake, FALSE, Conf(3)),
      Hyp(TxtWake, TRUE, Conf(0)), Hyp(TxtSleep, TRUE, Absent),
      Hyp(TxtSleep, FALSE, Conf(3)), Hyp(TxtBoth, TRUE, Conf(9)),
      Hyp(TxtNone, FALSE, Conf(9)), Hyp(TxtNone, TRUE, Conf(3)) }

\* the texts the pure functions are applied to: every text of at most MaxLen
\* characters over letters of both cases, whitespace and punctuation, and the
\* texts of the documented examples
TextAlphabet == {"h", "H", "i", " ", "!"}
ShortTexts == UNION { [1..n -> TextAlphabet] : n \in 0..MaxLen }
TxtOhHiThere == <<"o","h"," ","h","i"," ","t","h","e","r","e">>
TxtHelloWorld == <<"H","e","l","l","o"," ","w","o","r","l","d">>
TxtHighlight == <<"h","i","g","h","l","i","g","h","t">>
TxtHike == <<"h","i","k","e">>
TxtHelloThere == <<"h","e","l","l","o","t","h","e","r","e">>
ExampleTexts == {TxtOhHiThere, TxtHelloWorld, TxtHighlight, TxtHike, TxtHelloThere}
Texts == ShortTexts \cup ExampleTexts

\* the phrase lists a matcher is compiled from: the default wake words, one
\* phrase written with a full stop, and the empty list
DefaultWakeWords == << <<"h","i">>, <<"h","e","l","l","o">> >>
DottedWords == << <<"h","i",".">> >>
PhraseLists == {DefaultWakeWords, DottedWords, <<>>}

\* this.wakeRegex.test(this.normalizeTranscript(transcript)) for a matcher
\* compiled from wordList
detect(wordList, transcript) == RegexTest(wordList, normalizeTranscript(transcript))

\* the wakeConfidenceThreshold option, in tenths
Thresholds == {5}
\* the maxRestartAttempts options
AttemptOptions == {0, 2}

-----------------------------------------------------------------------------
(* The instance and its environment as one record, so that the methods can  *)
(* be composed the way the code calls them                                  *)

Modes == {"idle", "listening", "transcribing", "error", "stopped"}

CallKinds == {"mic", "stream"} \X {"plain", "timer"}

NoCalls == [k \in CallKinds |-> 0]

Cur ==
    [ currentState |-> currentState, isTranscribing |-> isTranscribing,
      restartAttempts |-> restartAttempts, restartTimeout |-> restartTimeout,
      recognition |-> recognition, timerLive |-> timerLive,
      liveTimers |-> liveTimers,
      recStatus |-> recStatus, staleStopped |-> staleStopped,
      staleAborted |-> staleAborted, hneWaiting |-> hneWaiting,
      calls |-> calls, onlineOnce |-> onlineOnce, lastCode |-> lastCode,
      online |-> online,
      sink |-> <<>>, outcome |-> "none" ]

TotalCalls(s) == s.calls[<<"mic", "plain">>] + s.calls[<<"mic", "timer">>]
                 + s.calls[<<"stream", "plain">>] + s.calls[<<"stream", "timer">>]

ActiveAdapters(s) ==
    s.staleStopped + s.staleAborted + (IF s.recStatus # "idle" THEN 1 ELSE 0)

InFlight(s) == TotalCalls(s) + s.hneWaiting + ActiveAdapters(s)

\* the scenario's bound on what is in flight
Bounded(s) == InFlight(s) <= MaxInFlight

\* the turn `op` on input `arg` ends in s
Commit(s, op, arg) ==
    /\ Bounded(s)
    /\ currentState' = s.currentState
    /\ isTranscribing' = s.isTranscribing
    /\ restartAttempts' = s.restartAttempts
    /\ restartTimeout' = s.restartTimeout
    /\ recognition' = s.recognition
    /\ timerLive' = s.timerLive
    /\ liveTimers' = s.liveTimers
    /\ recStatus' = s.recStatus
    /\ staleStopped' = s.staleStopped
    /\ staleAborted' = s.staleAborted
    /\ hneWaiting' = s.hneWaiting
    /\ calls' = s.calls
    /\ onlineOnce' = s.onlineOnce
    /\ lastCode' = s.lastCode
    /\ online' = s.online
    /\ sink' = s.sink
    /\ last' = [op |-> op, arg |-> arg, outcome |-> s.outcome]
    /\ sinceStop' = CASE op \in {"stopListening", "offline"} -> TRUE
                       [] op = "startListening" -> FALSE
                       [] OTHER -> sinceStop
    /\ UNCHANGED << autoRestart, maxRestartAttempts, wakeConfidenceThreshold,
                    apiSupported, phraseList, inputText, attempt, jitter, out >>

-----------------------------------------------------------------------------
(* Events *)

StateEvent(state, error) == [type |-> "state", state |-> state, error |-> error]

TranscriptEvent(transcript, isFinal, confidence) ==
    [type |-> "transcript", transcript |-> transcript, isFinal |-> isFinal,
     confidence |-> confidence]

emitEvent(s, event) == [s EXCEPT !.sink = Append(@, event)]

\* error is "none" where the code passes no error code
setState(s, state, error) ==
    emitEvent([s EXCEPT !.currentState = state, !.lastCode = error],
              StateEvent(state, error))

\* a variant that forwards final results only
emitTranscript_FinalOnly(s, transcript, isFinal, confidence) ==
    IF isFinal
    THEN emitEvent(s, TranscriptEvent(transcript, isFinal, confidence))
    ELSE s

emitTranscript(s, transcript, isFinal, confidence) ==
    emitEvent(s, TranscriptEvent(transcript, isFinal, confidence))

clearRestartTimeout(s) ==
    IF s.restartTimeout # "null"
    THEN [s EXCEPT !.restartTimeout = "null", !.timerLive = FALSE,
                   !.liveTimers = IF s.timerLive THEN @ - 1 ELSE @]
    ELSE s

enableTranscriptionMode(s) ==
    IF ~s.isTranscribing
    THEN setState([s EXCEPT !.isTranscribing = TRUE], "transcribing", "none")
    ELSE s

disableTranscriptionMode(s) ==
    IF s.isTranscribing
    THEN setState([s EXCEPT !.isTranscribing = FALSE], "listening", "none")
    ELSE s

\* confidence && confidence < this.wakeConfidenceThreshold: 0 and an absent
\* confidence are falsy
BelowThreshold(confidence) ==
    /\ confidence.present
    /\ confidence.value # 0
    /\ confidence.value < wakeConfidenceThreshold

WakeStep(s, transcript) ==
    IF ~s.isTranscribing /\ WakeTable[transcript]
    THEN enableTranscriptionMode(s)
    ELSE s

SleepStep(s, transcript) ==
    IF s.isTranscribing /\ SleepTable[transcript]
    THEN disableTranscriptionMode(s)
    ELSE s

\* a variant that forwards the transcript after the mode toggles
onresult_TranscriptLast(s, transcript, isFinal, confidence) ==
    IF BelowThreshold(confidence)
    THEN s
    ELSE emitTranscript(SleepStep(WakeStep(s, transcript), transcript),
                        transcript, isFinal, confidence)

\* recognition.onresult on a well-formed result
onresult(s, transcript, isFinal, confidence) ==
    IF BelowThreshold(confidence)
    THEN s
    ELSE SleepStep(WakeStep(emitTranscript(s, transcript, isFinal, confidence),
                            transcript),
                   transcript)

-----------------------------------------------------------------------------
(* The adapter (the Web Speech API object the instance drives) *)

\* recognition.start(): throws InvalidStateError on an adapter that is started
StartThrows(s) == s.recStatus # "idle"

AdapterStart(s) == [s EXCEPT !.recStatus = "starting"]

\* recognition.stop() followed by this.recognition = null: a started adapter
\* still delivers what it has, then its end event
DropStopped(s) ==
    [s EXCEPT !.staleStopped = IF s.recStatus # "idle" THEN @ + 1 ELSE @,
              !.recStatus = "idle",
              !.recognition = "null"]

\* recognition.abort() followed by this.recognition = null
DropAborted(s) ==
    [s EXCEPT !.staleAborted = IF s.recStatus # "idle" THEN @ + 1 ELSE @,
              !.recStatus = "idle",
              !.recognition = "null"]

-----------------------------------------------------------------------------
(* The restart paths *)

RECURSIVE Pow(_, _)
Pow(b, n) == IF n = 0 THEN 1 ELSE b * Pow(b, n - 1)

\* Math.floor(Math.random() * 1000), Math.random() being in [0, 1)
Jitters == 0..999

\* handleNetworkError: Math.min(2000 * Math.pow(1.5, k - 1), 15000), k being
\* restartAttempts after its increment. 1.5^(k-1) is 3^(k-1) / 2^(k-1), and
\* below the cap (k <= 5) the division by 2^(k-1) is exact
baseDelayNet(k) ==
    LET num == 2000 * Pow(3, k - 1)
        den == Pow(2, k - 1)
    IN IF num <= 15000 * den THEN num \div den ELSE 15000

\* handleNetworkError: delay = baseDelay + jitter
delay(k, j) == baseDelayNet(k) + j

\* a variant of scheduleRestart's delay without the cap
baseDelaySched_NoCap(k) ==
    (2000 * Pow(3, k - 1)) \div Pow(2, k - 1)

\* scheduleRestart: Math.min(2000 * Math.pow(1.5, k - 1), 15000)
baseDelaySched(k) ==
    LET num == 2000 * Pow(3, k - 1)
        den == Pow(2, k - 1)
    IN IF num <= 15000 * den THEN num \div den ELSE 15000

\* scheduleRestart: backoffDelay = baseDelay + jitter
backoffDelay(k, j) == baseDelaySched(k) + j

\* handleNetworkError up to its await of the 1000 ms wait
handleNetworkError(s) ==
    IF s.currentState = "error"
    THEN s
    ELSE [setState(s, "error", "network-connecting") EXCEPT !.hneWaiting = @ + 1]

\* the timer handleNetworkError sets, after clearRestartTimeout
ScheduleNetTimer(s) ==
    [clearRestartTimeout(s) EXCEPT !.restartTimeout = "net", !.timerLive = TRUE,
                                   !.liveTimers = @ + 1]

\* handleNetworkError's branch for attempts left, after the increment
NetRetry(s) ==
    LET isOffline == ~s.online
    IN IF isOffline
       THEN clearRestartTimeout(
                [setState(s, "error", "none") EXCEPT !.onlineOnce = @ + 1])
       ELSE ScheduleNetTimer(setState(s, "error", "none"))

\* handleNetworkError's decision between another attempt and giving up
NetDecide(s) ==
    IF autoRestart /\ s.restartAttempts < maxRestartAttempts
    THEN NetRetry([s EXCEPT !.restartAttempts = @ + 1])
    ELSE setState(s, "error", "network")

\* handleNetworkError from the end of its wait
handleNetworkErrorResume(s) ==
    LET s1 == [s EXCEPT !.hneWaiting = @ - 1]
    IN IF ~s1.online
       THEN setState(s1, "error", "network-offline")
       ELSE NetDecide(IF s1.recognition # "null" THEN DropAborted(s1) ELSE s1)

\* a variant that sets the timer without clearing the one before
ScheduleSchedTimer_NoClear(s) ==
    [s EXCEPT !.restartTimeout = "sched", !.timerLive = TRUE, !.liveTimers = @ + 1]

\* the timer scheduleRestart sets, after clearRestartTimeout
ScheduleSchedTimer(s) ==
    [clearRestartTimeout(s) EXCEPT !.restartTimeout = "sched", !.timerLive = TRUE,
                                   !.liveTimers = @ + 1]

\* a variant without the check against maxRestartAttempts
scheduleRestart_NoCap(s) ==
    ScheduleSchedTimer(
        setState([s EXCEPT !.restartAttempts = @ + 1], "error", "none"))

scheduleRestart(s) ==
    IF s.restartAttempts >= maxRestartAttempts
    THEN setState(s, "error", "max-attempts-reached")
    ELSE ScheduleSchedTimer(
             setState([s EXCEPT !.restartAttempts = @ + 1], "error", "none"))

\* what initRecognition does when it constructs an adapter; outcome "threw"
\* when the constructor is missing
initRecognition(s) ==
    IF s.recognition # "null"
    THEN s
    ELSE IF apiSupported
         THEN [s EXCEPT !.recognition = "obj", !.recStatus = "idle"]
         ELSE [setState(s, "error", "none") EXCEPT !.outcome = "threw"]

\* the catch block of scheduleRestart's timer callback
SchedTimerCatch(s) ==
    IF autoRestart
    THEN scheduleRestart(s)
    ELSE setState(s, "error", "restart-failed")

\* the callback of the timer scheduleRestart sets
SchedTimerFired(s) ==
    IF s.currentState = "stopped"
    THEN s
    ELSE LET s1 == initRecognition(s)
         IN IF s1.outcome = "threw"
            THEN SchedTimerCatch([s1 EXCEPT !.outcome = "none"])
            ELSE IF StartThrows(s1)
                 THEN SchedTimerCatch(s1)
                 ELSE AdapterStart(s1)

-----------------------------------------------------------------------------
(* startListening, cut at its two awaits *)

AddCall(s, pc, origin) == [s EXCEPT !.calls[<<pc, origin>>] = @ + 1]
RemoveCall(s, pc, origin) == [s EXCEPT !.calls[<<pc, origin>>] = @ - 1]

\* what the caller does when the promise settles: the timer of
\* handleNetworkError awaits it and calls handleNetworkError on rejection,
\* the other callers do nothing with it
Settle(s, origin, outcome) ==
    LET s1 == [s EXCEPT !.outcome = outcome]
    IN IF origin = "timer" /\ outcome = "rejected" /\ autoRestart
       THEN handleNetworkError(s1)
       ELSE s1

\* a variant without the 'already listening' guard
startListening_NoGuard(s, origin) ==
    IF ~s.online
    THEN Settle(setState(s, "error", "offline"), origin, "resolved")
    ELSE [AddCall(s, "mic", origin) EXCEPT !.outcome = "pending"]

\* startListening up to its first await
startListening(s, origin) ==
    IF s.currentState \in {"listening", "transcribing"}
    THEN Settle(s, origin, "resolved")
    ELSE IF ~s.online
         THEN Settle(setState(s, "error", "offline"), origin, "resolved")
         ELSE [AddCall(s, "mic", origin) EXCEPT !.outcome = "pending"]

\* from the end of checkMicrophoneAccess to the second getUserMedia
startListeningAfterMic(s, origin, granted) ==
    LET s1 == RemoveCall(s, "mic", origin)
    IN IF ~granted
       THEN Settle(setState(s1, "error", "microphone-denied"), origin, "resolved")
       ELSE LET s2 == initRecognition(s1)
            IN IF s2.outcome = "threw"
               THEN Settle(s2, origin, "rejected")
               ELSE [AddCall(s2, "stream", origin) EXCEPT !.outcome = "pending"]

\* a variant whose catch block only rethrows
StartCatch_NoEvent(s, origin) ==
    Settle(s, origin, "rejected")

\* the catch block of startListening
StartCatch(s, origin) ==
    Settle(setState(s, "error", "permission-denied"), origin, "rejected")

\* from the end of the second getUserMedia to the end of startListening
startListeningAfterStream(s, origin, granted) ==
    LET s1 == RemoveCall(s, "stream", origin)
    IN IF ~granted
       THEN StartCatch(s1, origin)
       ELSE IF s1.recognition = "null"
            THEN Settle(s1, origin, "resolved")
            ELSE IF StartThrows(s1)
                 THEN StartCatch(s1, origin)
                 ELSE Settle(setState(AdapterStart(s1), "listening", "none"),
                             origin, "resolved")

\* the callback of the timer handleNetworkError sets
NetTimerFired(s) ==
    IF s.currentState = "stopped"
    THEN s
    ELSE IF ~s.online
         THEN handleNetworkError(s)
         ELSE startListening(s, "timer")

\* a variant that leaves the restart timer running
stopListening_KeepsTimer(s) ==
    LET s1 == setState(s, "stopped", "none")
        s2 == IF s1.recognition # "null" THEN DropStopped(s1) ELSE s1
    IN [s2 EXCEPT !.isTranscribing = FALSE, !.restartAttempts = 0]

stopListening(s) ==
    LET s1 == setState(clearRestartTimeout(s), "stopped", "none")
        s2 == IF s1.recognition # "null" THEN DropStopped(s1) ELSE s1
    IN [s2 EXCEPT !.isTranscribing = FALSE, !.restartAttempts = 0]

-----------------------------------------------------------------------------
(* The adapter's other handlers and the network listeners *)

ErrorCodes == {"network", "not-allowed", "permission-denied",
               "service-not-allowed", "no-speech"}

onerror(s, errorType) ==
    CASE errorType = "network" -> handleNetworkError(s)
      [] errorType \in {"not-allowed", "permission-denied"} ->
            setState(s, "error", "permission-denied")
      [] errorType = "service-not-allowed" ->
            setState(s, "error", "service-not-allowed")
      [] OTHER -> handleNetworkError(s)

onend(s) ==
    IF s.currentState # "stopped" /\ autoRestart
    THEN scheduleRestart(s)
    ELSE s

onstart(s) == setState([s EXCEPT !.restartAttempts = 0], "listening", "none")

onlineHandler(s) ==
    IF autoRestart /\ s.currentState # "stopped"
    THEN startListening(s, "plain")
    ELSE s

\* the one-shot listener handleNetworkError registers
handleOnline(s) ==
    IF s.currentState # "stopped" /\ autoRestart
    THEN startListening(s, "plain")
    ELSE s

RECURSIVE RunOnlineOnce(_)
RunOnlineOnce(s) ==
    IF s.onlineOnce = 0
    THEN s
    ELSE RunOnlineOnce(handleOnline([s EXCEPT !.onlineOnce = @ - 1]))

offlineHandler(s) == stopListening(setState(s, "error", "offline"))

-----------------------------------------------------------------------------
(* The turns of the event loop *)

NoArg == [text |-> <<>>, isFinal |-> FALSE, confidence |-> Absent, code |-> "none",
          origin |-> "none", granted |-> FALSE]

\* new WakeSleepSTT(options)
Constructed ==
    /\ autoRestart \in BOOLEAN
    /\ maxRestartAttempts \in AttemptOptions
    /\ wakeConfidenceThreshold \in Thresholds
    /\ apiSupported \in BOOLEAN
    /\ online \in BOOLEAN
    /\ isTranscribing = FALSE
    /\ restartAttempts = 0
    /\ restartTimeout = "null"
    /\ recognition = "null"
    /\ timerLive = FALSE
    /\ liveTimers = 0
    /\ recStatus = "idle"
    /\ staleStopped = 0
    /\ staleAborted = 0
    /\ hneWaiting = 0
    /\ calls = NoCalls
    /\ onlineOnce = 0
    /\ currentState = IF apiSupported THEN "idle" ELSE "error"
    /\ lastCode = IF apiSupported THEN "none" ELSE "not-supported"
    /\ sink = IF apiSupported THEN <<>> ELSE << StateEvent("error", "not-supported") >>
    /\ last = [op |-> "constructor", arg |-> NoArg, outcome |-> "none"]
    /\ sinceStop = FALSE

\* nothing returned yet
NoOut == [op |-> "none", normalized |-> <<>>, renormalized |-> <<>>,
          matched |-> FALSE, delay |-> 0, backoffDelay |-> 0]

\* an instance with the scenario's phrase lists
Init ==
    /\ Constructed
    /\ phraseList = WakeWords
    /\ inputText = <<>>
    /\ attempt = 1
    /\ jitter = 0
    /\ out = NoOut

\* the application calls startListening()
StartListening ==
    Commit(startListening(Cur, "plain"), "startListening", NoArg)

\* a suspended startListening resumes after checkMicrophoneAccess
StartListeningAfterMic ==
    \E origin \in {"plain", "timer"}, granted \in BOOLEAN :
        /\ calls[<<"mic", origin>>] > 0
        /\ Commit(startListeningAfterMic(Cur, origin, granted),
                  "startListeningAfterMic",
                  [NoArg EXCEPT !.origin = origin, !.granted = granted])

\* a suspended startListening resumes after its second getUserMedia
StartListeningAfterStream ==
    \E origin \in {"plain", "timer"}, granted \in BOOLEAN :
        /\ calls[<<"stream", origin>>] > 0
        /\ Commit(startListeningAfterStream(Cur, origin, granted),
                  "startListeningAfterStream",
                  [NoArg EXCEPT !.origin = origin, !.granted = granted])

\* the application calls stopListening()
StopListening == Commit(stopListening(Cur), "stopListening", NoArg)

EnableTranscriptionModePublic ==
    Commit(enableTranscriptionMode(Cur), "enableTranscriptionModePublic", NoArg)

DisableTranscriptionModePublic ==
    Commit(disableTranscriptionMode(Cur), "disableTranscriptionModePublic", NoArg)

\* an adapter that is running delivers a result; so does one that was stopped
\* and has not ended (stop() returns what was recognised so far), whose
\* handlers still point at the instance
OnResult ==
    /\ recStatus = "running" \/ staleStopped > 0
    /\ \E h \in Hypotheses :
          Commit(onresult(Cur, h.text, h.isFinal, h.confidence), "onresult",
                 [NoArg EXCEPT !.text = h.text, !.isFinal = h.isFinal,
                               !.confidence = h.confidence])

\* the adapter the instance holds reports an error; its end event follows
OnError ==
    /\ recStatus \in {"starting", "running"}
    /\ \E errorType \in ErrorCodes :
          Commit(onerror([Cur EXCEPT !.recStatus = "ending"], errorType), "onerror",
                 [NoArg EXCEPT !.code = errorType])

\* the adapter the instance holds ends
OnEnd ==
    /\ recStatus # "idle"
    /\ Commit(onend([Cur EXCEPT !.recStatus = "idle"]), "onend", NoArg)

\* an adapter the instance dropped after stop() ends
OnEndStopped ==
    /\ staleStopped > 0
    /\ Commit(onend([Cur EXCEPT !.staleStopped = @ - 1]), "onend", NoArg)

\* an adapter the instance dropped after abort() ends
OnEndAborted ==
    /\ staleAborted > 0
    /\ Commit(onend([Cur EXCEPT !.staleAborted = @ - 1]), "onend", NoArg)

\* the adapter the instance holds reports that it started
OnStart ==
    /\ recStatus = "starting"
    /\ Commit(onstart([Cur EXCEPT !.recStatus = "running"]), "onstart", NoArg)

\* the restart timer fires; the handle stays in restartTimeout
TimerFired ==
    /\ timerLive
    /\ LET s == [Cur EXCEPT !.timerLive = FALSE, !.liveTimers = @ - 1]
       IN IF restartTimeout = "sched"
          THEN Commit(SchedTimerFired(s), "schedTimer", NoArg)
          ELSE Commit(NetTimerFired(s), "netTimer", NoArg)

\* the 1000 ms wait of a handleNetworkError call ends
HandleNetworkErrorResume ==
    /\ hneWaiting > 0
    /\ Commit(handleNetworkErrorResume(Cur), "handleNetworkErrorResume", NoArg)

\* the window's online event: the constructor's listener, then the one-shot ones
NetworkOnline ==
    /\ ~online
    /\ Commit(RunOnlineOnce(onlineHandler([Cur EXCEPT !.online = TRUE])),
              "online", NoArg)

\* the window's offline event
NetworkOffline ==
    /\ online
    /\ Commit(offlineHandler([Cur EXCEPT !.online = FALSE]), "offline", NoArg)

Next ==
    \/ StartListening
    \/ StartListeningAfterMic
    \/ StartListeningAfterStream
    \/ StopListening
    \/ EnableTranscriptionModePublic
    \/ DisableTranscriptionModePublic
    \/ OnResult
    \/ OnError
    \/ OnEnd
    \/ OnEndStopped
    \/ OnEndAborted
    \/ OnStart
    \/ TimerFired
    \/ HandleNetworkErrorResume
    \/ NetworkOnline
    \/ NetworkOffline

Spec == Init /\ [][Next]_vars

-----------------------------------------------------------------------------
(* The pure functions of the instance, each applied once to inputs drawn    *)
(* from the sets above                                                      *)

\* the inputs of the matcher and of normalizeTranscript
MatchInputs ==
    /\ phraseList \in PhraseLists
    /\ inputText \in Texts
    /\ attempt = 1
    /\ jitter = 0

\* the inputs of the delay computation
DelayInputs ==
    /\ phraseList = DefaultWakeWords
    /\ inputText = <<>>
    /\ attempt \in 1..MaxAttempt
    /\ jitter \in Jitters

PureInit ==
    /\ Constructed
    /\ autoRestart
    /\ maxRestartAttempts = 2
    /\ apiSupported
    /\ online
    /\ out = NoOut
    /\ MatchInputs \/ DelayInputs

\* normalizeTranscript(text), and normalizeTranscript of what it returned
Normalize ==
    /\ out.op = "none"
    /\ out' = [NoOut EXCEPT !.op = "normalize",
                            !.normalized = normalizeTranscript(inputText),
                            !.renormalized =
                                normalizeTranscript(normalizeTranscript(inputText))]
    /\ UNCHANGED << instance, phraseList, inputText, attempt, jitter >>

\* detectWakeWord(text) on an instance constructed with phraseList
Detect ==
    /\ out.op = "none"
    /\ out' = [NoOut EXCEPT !.op = "detect",
                            !.matched = detect(phraseList, inputText)]
    /\ UNCHANGED << instance, phraseList, inputText, attempt, jitter >>

\* the delay of the retry numbered attempt, as each restart path computes it
ComputeDelay ==
    /\ out.op = "none"
    /\ out' = [NoOut EXCEPT !.op = "delay",
                            !.delay = delay(attempt, jitter),
                            !.backoffDelay = backoffDelay(attempt, jitter)]
    /\ UNCHANGED << instance, phraseList, inputText, attempt, jitter >>

PureNext ==
    \/ Normalize
    \/ Detect
    \/ ComputeDelay

PureSpec == PureInit /\ [][PureNext]_vars

-----------------------------------------------------------------------------
(* The controller with autoRestart in an environment that grants every      *)
(* microphone request, takes the network away only while the controller is  *)
(* Listening or Transcribing, and in which the application never calls      *)
(* stopListening. What the event loop owes is delivered: the continuation   *)
(* of a suspended call, the start and end events of an adapter, a timer     *)
(* that was set, the end of handleNetworkError's wait.                      *)

LiveInit ==
    /\ Init
    /\ autoRestart
    /\ apiSupported
    /\ online

\* checkMicrophoneAccess resolves true
MicGranted ==
    \E origin \in {"plain", "timer"} :
        /\ calls[<<"mic", origin>>] > 0
        /\ Commit(startListeningAfterMic(Cur, origin, TRUE),
                  "startListeningAfterMic",
                  [NoArg EXCEPT !.origin = origin, !.granted = TRUE])

\* the second getUserMedia resolves
StreamGranted ==
    \E origin \in {"plain", "timer"} :
        /\ calls[<<"stream", origin>>] > 0
        /\ Commit(startListeningAfterStream(Cur, origin, TRUE),
                  "startListeningAfterStream",
                  [NoArg EXCEPT !.origin = origin, !.granted = TRUE])

\* the window's offline event while the controller listens
OfflineWhileListening ==
    /\ currentState \in {"listening", "transcribing"}
    /\ NetworkOffline

\* the end event of an adapter that reported an error
EndAfterError ==
    /\ recStatus = "ending"
    /\ OnEnd

LiveNext ==
    \/ StartListening
    \/ MicGranted
    \/ StreamGranted
    \/ OnResult
    \/ OnError
    \/ OnEnd
    \/ OnEndStopped
    \/ OnEndAborted
    \/ OnStart
    \/ TimerFired
    \/ HandleNetworkErrorResume
    \/ NetworkOnline
    \/ OfflineWhileListening

Delivery ==
    /\ WF_vars(MicGranted)
    /\ WF_vars(StreamGranted)
    /\ WF_vars(OnStart)
    /\ WF_vars(EndAfterError)
    /\ WF_vars(OnEndStopped)
    /\ WF_vars(OnEndAborted)
    /\ WF_vars(TimerFired)
    /\ WF_vars(HandleNetworkErrorResume)

LiveSpec == LiveInit /\ [][LiveNext]_vars /\ Delivery

-----------------------------------------------------------------------------
(* Properties *)

StateEvents(events) == SelectSeq(events, LAMBDA e : e.type = "state")
TranscriptEvents(events) == SelectSeq(events, LAMBDA e : e.type = "transcript")

\* C1: immediately after stopListening() returns (called by the application
\* or by the offline listener), Mode is Stopped, no restart timer is pending,
\* restartAttempts is 0, isTranscribing is false and the adapter is released.
C1_StopListeningResets ==
    last.op \in {"stopListening", "offline"} =>
        /\ currentState = "stopped"
        /\ ~timerLive
        /\ restartTimeout = "null"
        /\ restartAttempts = 0
        /\ ~isTranscribing
        /\ recognition = "null"

\* stopListening() has just torn down an adapter that was started
C1_Witness ==
    /\ last.op = "stopListening"
    /\ staleStopped > 0
    /\ currentState = "stopped"

\* the turns that are neither a call by the application nor the constructor
BackgroundOps ==
    {"onresult", "onerror", "onend", "onstart", "schedTimer", "netTimer",
     "online", "offline", "handleNetworkErrorResume",
     "startListeningAfterMic", "startListeningAfterStream"}

\* C2: after stopListening() has returned and until the application calls
\* startListening() again, no adapter event, timer, network event or
\* continuation of an async operation leaves Mode different from Stopped,
\* increments restartAttempts, schedules a restart timer or constructs or
\* starts an adapter.
C2_NothingRunsAfterStop ==
    [][(sinceStop /\ currentState = "stopped" /\ last'.op \in BackgroundOps) =>
          /\ currentState' = "stopped"
          /\ restartAttempts' <= restartAttempts
          /\ (timerLive' => timerLive)
          /\ (recognition' # "null" => recognition # "null")
          /\ (recStatus' = "starting" => recStatus = "starting")]_vars

\* the result is accepted in the sense of the specification: it carries no
\* confidence, or one that is not below the threshold
Accepted(confidence) ==
    ~confidence.present \/ confidence.value >= wakeConfidenceThreshold

\* C3: one onresult invocation performs at most one mode toggle, and an
\* accepted wake match while not transcribing ends in Transcribing with
\* isTranscribing true.
C3_AtMostOneToggle ==
    [][last'.op = "onresult" =>
          /\ Len(StateEvents(sink')) <= 1
          /\ (/\ ~isTranscribing
              /\ Accepted(last'.arg.confidence)
              /\ detectWakeWord(last'.arg.text))
             => (isTranscribing' /\ currentState' = "transcribing")]_vars

\* C4: a result whose confidence is present and strictly below the threshold
\* emits nothing and leaves Mode and isTranscribing unchanged.
C4_LowConfidenceDiscarded ==
    [][(last'.op = "onresult" /\ ~Accepted(last'.arg.confidence)) =>
          /\ sink' = <<>>
          /\ currentState' = currentState
          /\ isTranscribing' = isTranscribing]_vars

\* C5: every accepted result delivers exactly one TranscriptEvent, carrying
\* its raw text, finality flag and confidence, whatever the Mode.
C5_OneTranscriptPerResult ==
    (last.op = "onresult" /\ Accepted(last.arg.confidence)) =>
        TranscriptEvents(sink) =
            << TranscriptEvent(last.arg.text, last.arg.isFinal, last.arg.confidence) >>

\* an interim result with punctuation and capitals was forwarded as it came
\* while Mode was Error
C5_Witness ==
    /\ last.op = "onresult"
    /\ ~last.arg.isFinal
    /\ last.arg.text = TxtNone
    /\ currentState = "error"
    /\ sink = << TranscriptEvent(TxtNone, FALSE, Conf(9)) >>

\* C6: among the events of one result the TranscriptEvent comes first and the
\* StateEvents follow in the order of the transitions (the last one names the
\* Mode the turn ends in); 'please start now' while not transcribing yields
\* TranscriptEvent, StateEvent(transcribing), and 'ok stop' while transcribing
\* yields TranscriptEvent, StateEvent(listening).
C6_TranscriptBeforeState ==
    /\ StateEvents(sink) # <<>> =>
          StateEvents(sink)[Len(StateEvents(sink))].state = currentState
    /\ (last.op = "onresult" /\ sink # <<>>) =>
        /\ \A i \in 1..Len(sink) : (sink[i].type = "transcript") <=> (i = 1)
        /\ (last.arg.text = TxtWake /\ Len(sink) > 1) =>
              sink = << TranscriptEvent(TxtWake, last.arg.isFinal, last.arg.confidence),
                        StateEvent("transcribing", "none") >>
        /\ (last.arg.text = TxtSleep /\ Len(sink) > 1) =>
              sink = << TranscriptEvent(TxtSleep, last.arg.isFinal, last.arg.confidence),
                        StateEvent("listening", "none") >>

\* 'ok stop' has just ended transcription
C6_Witness ==
    /\ last.op = "onresult"
    /\ last.arg.text = TxtSleep
    /\ sink = << TranscriptEvent(TxtSleep, TRUE, Absent),
                 StateEvent("listening", "none") >>
    /\ currentState = "listening"
    /\ recStatus = "running"

\* C7: Mode becomes Transcribing only from Listening, only by a result whose
\* text matches a wake phrase, and only when isTranscribing was false.
C7_TranscribingOnlyFromListening ==
    [][(currentState' = "transcribing" /\ currentState # "transcribing") =>
          /\ currentState = "listening"
          /\ last'.op = "onresult"
          /\ ~isTranscribing
          /\ detectWakeWord(last'.arg.text)]_vars

\* the controller is in Error and nothing is left that would act: no restart
\* timer, no waiting handleNetworkError, no suspended startListening, no
\* adapter that still owes an event
Quiescent ==
    /\ currentState = "error"
    /\ ~timerLive
    /\ hneWaiting = 0
    /\ TotalCalls(Cur) = 0
    /\ ActiveAdapters(Cur) = 0

\* C8: with autoRestart, once a restart attempt made by handleNetworkError's
\* timer has failed, the controller comes to rest only at the cap, in Error
\* with code max-attempts-reached: the chain never stalls below the cap.
C8_RetryChainNeverStalls ==
    (/\ autoRestart
     /\ online
     /\ last.op \in {"startListeningAfterMic", "startListeningAfterStream"}
     /\ last.arg.origin = "timer"
     /\ last.outcome # "pending"
     /\ Quiescent) =>
        /\ restartAttempts = maxRestartAttempts
        /\ lastCode = "max-attempts-reached"

\* C9: with autoRestart, a retry requested while restartAttempts equals
\* maxRestartAttempts schedules no timer, leaves restartAttempts unchanged
\* and settles in Error with code max-attempts-reached, on the stream-ended
\* path (onend -> scheduleRestart) and on the stream-error path (the decision
\* of handleNetworkError).
C9_CapSettlesMaxAttempts ==
    [][(/\ autoRestart
        /\ restartAttempts = maxRestartAttempts
        /\ \/ last'.op = "onend" /\ currentState # "stopped"
           \/ last'.op = "handleNetworkErrorResume" /\ online) =>
          /\ currentState' = "error"
          /\ lastCode' = "max-attempts-reached"
          /\ restartAttempts' = restartAttempts
          /\ (timerLive' => timerLive)]_vars

\* C10: startListening() while Mode is Listening or Transcribing changes
\* nothing: no event, no microphone request, no adapter start.
C10_StartWhileListeningIsNoOp ==
    [][(last'.op = "startListening" /\ currentState \in {"listening", "transcribing"}) =>
          /\ UNCHANGED << currentState, isTranscribing, restartAttempts,
                          restartTimeout, timerLive, recognition, recStatus,
                          calls, hneWaiting, lastCode >>
          /\ sink' = <<>>]_vars

\* startListening() has just returned at once while transcribing, with a
\* started adapter
C10_Witness ==
    /\ last.op = "startListening"
    /\ last.outcome = "resolved"
    /\ currentState = "transcribing"
    /\ recStatus = "running"
    /\ sink = <<>>

\* C11: however startListening() calls overlap, the adapter's start() is
\* invoked at most once between a start and the following stop, abort or end:
\* no call invokes recognition.start() on an adapter that is already started.
C11_StartInvokedOncePerAdapter ==
    [][(/\ last'.op = "startListeningAfterStream"
        /\ last'.arg.granted
        /\ recognition # "null") => recStatus = "idle"]_vars

\* the turn delivered an Error StateEvent, its last StateEvent, and Mode is Error
EndsInError(mode, events) ==
    /\ mode = "error"
    /\ StateEvents(events) # <<>>
    /\ StateEvents(events)[Len(StateEvents(events))].state = "error"

\* C12: whenever startListening() fails to reach Listening (no network at
\* call time, microphone access denied, adapter construction failure, adapter
\* start failure), Mode is Error afterwards and an Error StateEvent was
\* delivered; without network it fails with code offline before any
\* microphone request and before an adapter is constructed or started.
C12_FailedStartEndsInError ==
    [][/\ (/\ last'.op = "startListening"
           /\ currentState \notin {"listening", "transcribing"}
           /\ ~online) =>
             /\ currentState' = "error"
             /\ sink' = << StateEvent("error", "offline") >>
             /\ UNCHANGED << calls, recognition, recStatus >>
       /\ (last'.op = "startListeningAfterMic" /\ ~last'.arg.granted) =>
             EndsInError(currentState', sink')
       /\ (/\ last'.op = "startListeningAfterMic"
           /\ last'.arg.granted
           /\ recognition = "null"
           /\ ~apiSupported) =>
             EndsInError(currentState', sink')
       /\ (/\ last'.op = "startListeningAfterStream"
           /\ \/ ~last'.arg.granted
              \/ recognition # "null" /\ recStatus # "idle") =>
             EndsInError(currentState', sink')]_vars

\* the adapter's start() has just thrown in a startListening call whose
\* microphone requests were granted
C12_Witness ==
    /\ last.op = "startListeningAfterStream"
    /\ last.arg.granted
    /\ last.outcome = "rejected"
    /\ currentState = "error"
    /\ sink = << StateEvent("error", "permission-denied") >>

\* C13: the promise startListening() returns resolves only when Mode has
\* become Listening or the call was a no-op because the controller was already
\* Listening or Transcribing; every failure rejects.
C13_ResolvesOnlyWhenListening ==
    [][(/\ last'.op \in {"startListening", "startListeningAfterMic",
                         "startListeningAfterStream"}
        /\ last'.outcome = "resolved") =>
          \/ currentState' = "listening"
          \/ /\ last'.op = "startListening"
             /\ currentState \in {"listening", "transcribing"}]_vars

\* C14: with autoRestart false, when the adapter the instance holds ends
\* while Mode is Listening or Transcribing and stopListening() was not called,
\* Mode leaves Listening/Transcribing for Error.
C14_EndLeavesListening ==
    [][(/\ ~autoRestart
        /\ ~sinceStop
        /\ last'.op = "onend"
        /\ recStatus # "idle"
        /\ recStatus' = "idle"
        /\ currentState \in {"listening", "transcribing"}) =>
          currentState' = "error"]_vars

PermissionErrors == {"not-allowed", "permission-denied", "service-not-allowed"}

\* C15: a permission-class or policy-class error of the adapter sets Mode to
\* Error with that class' code, leaves restartAttempts unchanged and schedules
\* no restart timer, neither in the error event's turn nor in the turn of the
\* end event that follows it.
C15_PermissionErrorNotRetried ==
    [][/\ (last'.op = "onerror" /\ last'.arg.code \in PermissionErrors) =>
             /\ currentState' = "error"
             /\ lastCode' \in {"permission-denied", "service-not-allowed"}
             /\ restartAttempts' = restartAttempts
             /\ (timerLive' => timerLive)
       /\ (/\ last.op = "onerror"
           /\ last.arg.code \in PermissionErrors
           /\ recStatus = "ending"
           /\ last'.op = "onend"
           /\ recStatus' = "idle") =>
             /\ currentState' = "error"
             /\ lastCode' = lastCode
             /\ restartAttempts' = restartAttempts
             /\ (timerLive' => timerLive)]_vars

\* C16: a stream failure handled while the environment reports no network
\* (by handleNetworkError after its wait, or by the end event's handler)
\* starts no restart timer and leaves restartAttempts unchanged; and when the
\* network returns to an instance that handleNetworkError left in Error with
\* code network-offline, exactly one startListening attempt is made.
C16_OfflineFailureWaitsForNetwork ==
    [][/\ (/\ autoRestart
           /\ ~online
           /\ \/ last'.op = "handleNetworkErrorResume"
              \/ last'.op = "onend" /\ currentState # "stopped") =>
             /\ restartAttempts' = restartAttempts
             /\ (timerLive' => timerLive)
       /\ (/\ autoRestart
           /\ last'.op = "online"
           /\ currentState = "error"
           /\ lastCode = "network-offline") =>
             TotalCalls([calls |-> calls']) = TotalCalls(Cur) + 1]_vars

\* some phrase of wordList occurs in the normalized text n as a contiguous
\* sequence of characters delimited by word boundaries
Occurs(wordList, n) ==
    \E i \in 1..Len(wordList) :
        LET w == toLowerCase(wordList[i])
        IN \E p \in 0..(Len(n) - Len(w)) :
              /\ SubSeq(n, p + 1, p + Len(w)) = w
              /\ WordBoundary(n, p)
              /\ WordBoundary(n, p + Len(w))

\* C17: for a list of non-empty phrases, detection is true iff some phrase
\* occurs in normalize(text) delimited by word boundaries; with ['hi','hello'],
\* 'Hi!', 'oh hi there' and 'Hello world' match, 'highlight', 'hike' and
\* 'hellothere' do not; a text whose normalization is empty never matches.
C17_MatchIffPhraseOccurs ==
    (/\ out.op = "detect"
     /\ phraseList # <<>>
     /\ \A i \in 1..Len(phraseList) : phraseList[i] # <<>>) =>
        /\ out.matched <=> Occurs(phraseList, normalizeTranscript(inputText))
        /\ normalizeTranscript(inputText) = <<>> => ~out.matched
        /\ (/\ phraseList = DefaultWakeWords
            /\ inputText \in {<<"H","i","!">>, TxtOhHiThere, TxtHelloWorld}) =>
              out.matched
        /\ (/\ phraseList = DefaultWakeWords
            /\ inputText \in {TxtHighlight, TxtHike, TxtHelloThere}) =>
              ~out.matched

\* C18: normalize is idempotent: normalize(normalize(T)) = normalize(T) for
\* every text over letters, whitespace and punctuation.
C18_NormalizeIdempotent ==
    out.op = "normalize" => out.renormalized = out.normalized

\* C19: a matcher compiled from an empty phrase list never matches.
C19_EmptyListNeverMatches ==
    (out.op = "detect" /\ phraseList = <<>>) => ~out.matched

\* C20: the delay of the retry numbered k is min(2000 * 1.5^(k-1), 15000) plus
\* an integer jitter in [0, 1000): the nominal part starts at 2000, grows by
\* the factor 1.5 until the cap, never decreases and never exceeds 15000, so
\* the delay lies in [2000, 16000); both restart paths compute the same delay.
C20_BackoffDelay ==
    out.op = "delay" =>
        LET nominal == out.backoffDelay - jitter
            following == baseDelaySched(attempt + 1)
        IN /\ out.delay = out.backoffDelay
           /\ jitter \in 0..999
           /\ attempt = 1 => nominal = 2000
           /\ nominal >= 2000
           /\ nominal <= 15000
           /\ out.backoffDelay >= 2000
           /\ out.backoffDelay < 16000
           /\ nominal <= following
           /\ nominal < 15000 => nominal < following
           /\ following < 15000 => 2 * following = 3 * nominal
           /\ following = 15000 => 3 * nominal >= 2 * 15000

\* the first capped delay with the largest jitter
C20_Witness ==
    /\ out.op = "delay"
    /\ attempt = 6
    /\ jitter = 999
    /\ out.delay = 15999
    /\ out.backoffDelay = 15999

\* C21: in every reachable state 0 <= restartAttempts <= maxRestartAttempts,
\* for every maxRestartAttempts including 0.
C21_AttemptsWithinCap ==
    /\ restartAttempts >= 0
    /\ restartAttempts <= maxRestartAttempts

\* both restart paths have counted: the counter stands at the cap of 2 with
\* handleNetworkError's timer pending
C21_Witness ==
    /\ maxRestartAttempts = 2
    /\ restartAttempts = 2
    /\ last.op = "handleNetworkErrorResume"
    /\ restartTimeout = "net"
    /\ timerLive

\* C22: in every reachable state at most one restart timer is live: every
\* scheduling of a restart timer first cancels the one scheduled before.
C22_AtMostOneTimer ==
    /\ liveTimers <= 1
    /\ timerLive <=> liveTimers = 1

\* the end event has scheduled a timer over the live one of handleNetworkError
C22_Witness ==
    /\ last.op = "onend"
    /\ restartTimeout = "sched"
    /\ restartAttempts = 2
    /\ lastCode = "none"
    /\ liveTimers = 1

\* C23: a successful (re)start cancels the pending restart timer: when a
\* startListening call or the adapter's start event has set Mode to Listening,
\* no restart timer is live.
C23_StartCancelsTimer ==
    [][(/\ last'.op \in {"startListeningAfterStream", "onstart"}
        /\ sink' = << StateEvent("listening", "none") >>) =>
          ~timerLive']_vars

\* C24: restartAttempts is 0 immediately after startListening() has set Mode
\* to Listening, immediately after the adapter's start event, and immediately
\* after stopListening().
C24_CounterZeroAfterStart ==
    [][/\ (/\ last'.op = "startListeningAfterStream"
           /\ sink' = << StateEvent("listening", "none") >>) =>
             restartAttempts' = 0
       /\ last'.op = "onstart" => restartAttempts' = 0
       /\ last'.op = "stopListening" => restartAttempts' = 0]_vars

\* C25: isTranscribingActive() is true iff getState() is Transcribing; a
\* stream error, stream end, timer or restart that happens while transcribing
\* with a running adapter keeps the two in step.
C25_TranscribingIffMode ==
    [][(/\ isTranscribing
        /\ currentState = "transcribing"
        /\ recStatus = "running"
        /\ last'.op \in {"onerror", "onend", "onstart", "schedTimer", "netTimer",
                         "handleNetworkErrorResume", "startListeningAfterMic",
                         "startListeningAfterStream"}) =>
          (isTranscribing' <=> currentState' = "transcribing")]_vars

\* C26: whenever Mode is Listening or Transcribing the controller holds an
\* adapter instance.
C26_ListeningHoldsAdapter ==
    currentState \in {"listening", "transcribing"} => recognition # "null"

\* C27: with autoRestart, after the network went away while the controller
\* was Listening or Transcribing and has come back, the controller eventually
\* is Listening again.
C27_ReturnsToListening ==
    (last.op = "online") ~> (currentState = "listening")

\* C28: an instance on which startListening() was never called stays Idle and
\* requests no microphone and starts no adapter: no network event, timer or
\* adapter callback moves it out of Idle.
C28_IdleUntilStarted ==
    [][(/\ currentState = "idle"
        /\ TotalCalls(Cur) = 0
        /\ recognition = "null"
        /\ last'.op \in BackgroundOps) =>
          /\ currentState' = "idle"
          /\ calls' = calls
          /\ recognition' = "null"]_vars

\* C29: one stream failure increments restartAttempts at most once: when the
\* end event's handler has counted the failure, handleNetworkError's
\* continuation does not count it again, and when handleNetworkError has
\* counted it, the end event of the adapter it aborted does not.
C29_OneIncrementPerFailure ==
    [][/\ (/\ last.op = "onend"
           /\ sink = << StateEvent("error", "none") >>
           /\ hneWaiting = 1
           /\ last'.op = "handleNetworkErrorResume") =>
             restartAttempts' = restartAttempts
       /\ (/\ last.op = "handleNetworkErrorResume"
           /\ restartTimeout = "net"
           /\ timerLive
           /\ staleAborted = 1
           /\ last'.op = "onend"
           /\ staleAborted' = 0) =>
             restartAttempts' = restartAttempts]_vars

====
